---- MODULE Spec2Model ----
(***************************************************************************)
(* Wordle solving engine (bent101/go-wordle-solving): the feedback codec   *)
(* getHint, the structural analysis AnalyzeWordle / FilterWords, the       *)
(* Bitvec primitive, the candidate index built by calculateHints and       *)
(* calculateBitvecs, the scoring functions and the parallel guess-pair     *)
(* search findBestGuess.                                                   *)
(*                                                                         *)
(* A letter is the integer ch - 'a' (0..25); a word is a sequence of       *)
(* WordLen letters.  Go slices and strings are 0-indexed: a position p of  *)
(* the source is element p + 1 of the TLA+ sequence.                       *)
(***************************************************************************)
EXTENDS Integers, Sequences, FiniteSets, TLC

VARIABLES
    \* ---- GenerateAllLetterInfos (SpecPrecompute) ----
    genPc,          \* "off" | "run" | "done"
    genFreq,        \* loop variable freq
    genExactness,   \* loop variable exactness
    genMustBits,    \* loop variable mustBits
    allInfos,       \* the slice allInfos
    \* ---- bitvector objects (SpecBitvec) ----
    bvKind,         \* "off" | "Bitvec" (part_003) | "Bitvector" (bitvector.go)
    bvs,            \* the bitvectors allocated so far
    \* ---- MinBy (SpecMinBy) ----
    minByPc,        \* the caller: "off" | "call" | "spawn" | "wait" | "returned"
    slice,          \* parameter slice
    keyFunc,        \* parameter keyFunc, a pure function of the element
    minKey,         \* local minKey
    minVal,         \* local minVal
    minByMu,        \* local mu: 0 when unlocked, else the goroutine holding it
    minByWg,        \* counter of the local wg
    minByNext,      \* index of the next element of the range loop
    goPc,           \* goroutine k: "idle" | "run" | "cmp" | "write" | "unlock" | "done"
    goVal,          \* goroutine k: local val
    minByRet,       \* the value returned
    \* ---- base-3 fold and digit extraction (SpecFold) ----
    foldPc,         \* "off" | "input" | "folded" | "extracted"
    foldTags,       \* the array charHints handed to the fold
    foldRet,        \* the Hint returned by the fold
    foldWrapped,    \* some step of the fold exceeded the uint8 range
    foldDigits,     \* the array digits of Hint.ColoredWord
    \* ---- pure-function harness (SpecCodec) ----
    cPc,            \* "off" | "input" | "hinted" | "analyzed" | "filtered"
    cGuess,         \* the guess handed to getHint / AnalyzeWordle
    cAnswer,        \* the answer (target)
    cHint,          \* result of getHint(cGuess, cAnswer)
    cCudaHint,      \* result of the CUDA getHint(cGuess, cAnswer)
    cNewHint,       \* the Hint of hint.New(cGuess, cAnswer)
    cInfos,         \* LetterInfos of AnalyzeWordle(cAnswer, cGuess)
    cValid,         \* the words kept by FilterWords and by the bitvector path
    \* ---- the program (Spec) ----
    variant,        \* "main": package main (part_001); "api": api/wordle.go
    guesses,        \* var guesses: the guess vocabulary
    answers,        \* var answers: the answer vocabulary
    guessesMap,     \* var guessesMap: guess -> [AnswerHints, HintsMap]
    pcMain,         \* position of the main goroutine
    wg,             \* counter of the sync.WaitGroup of the running function
    hNext,          \* calculateHints: index of the next guess of the range loop
    hPc,            \* calculateHints goroutine of guess k: "idle" | "run" | "done"
    bPc,            \* calculateBitvecs goroutine of guess k: "idle" | "run" | "done"
    query,          \* result of the last lookup / filter / scoring call
    filteredGuesses,\* findBestGuess: guesses with 5 distinct letters
    guessBitvecs,   \* findBestGuess: their letter-presence masks
    bestGuess1,
    bestGuess2,
    bestGuessVal,
    mu,             \* sync.Mutex: 0 when unlocked, else the worker holding it
    sI,             \* findBestGuess: next i of the spawning loop
    wPc,            \* worker i: "idle" | "loop" | "lock" | "cmp" | "write1" | "write2" | "write3" | "unlock" | "done"
    wJ,             \* worker i: loop variable j
    wVal,           \* worker i: guessVal
    scored,         \* history: the pairs handed to the scoring function
    reported        \* the values read by the final Printf

genVars == <<genPc, genFreq, genExactness, genMustBits, allInfos>>

bitvecVars == <<bvKind, bvs>>

foldVars == <<foldPc, foldTags, foldRet, foldWrapped, foldDigits>>

minByVars == <<minByPc, slice, keyFunc, minKey, minVal, minByMu, minByWg,
               minByNext, goPc, goVal, minByRet>>

unitVars == <<genVars, bitvecVars, foldVars, minByVars>>

codecVars == <<cPc, cGuess, cAnswer, cHint, cCudaHint, cNewHint, cInfos, cValid>>

inputVars == <<variant, guesses, answers>>

indexVars == <<hNext, hPc, bPc>>

searchVars == <<filteredGuesses, guessBitvecs, bestGuess1, bestGuess2,
                bestGuessVal, mu, sI, wPc, wJ, wVal, scored, reported>>

programVars == <<inputVars, guessesMap, pcMain, wg, indexVars, query, searchVars>>

vars == <<unitVars, codecVars, programVars>>

----------------------------------------------------------------------------
\* Program constants

\* words are 5 letters long ([5]uint8 charHints, range 5)
WordLen == 5
\* feedback digits are folded in base 3
HintBase == 3
\* the fold accumulates in a uint8
Uint8Range == 256
\* a Bitvec word is a uint64
WordBits == 64
\* letter-presence masks have 26 bits
AlphabetSize == 26
\* charHints digits
Absent == 0
Present == 1
Correct == 2
\* the scoring short-circuit: a running set of at most 2 candidates counts 1
SolvedCount == 2

\* Bounds of the model

\* letters used by the exhaustive pure-function inputs (0 .. NumLetters - 1)
NumLetters == 3

----------------------------------------------------------------------------
\* Helpers

None == "none"

Max(a, b) == IF a >= b THEN a ELSE b

Min(a, b) == IF a <= b THEN a ELSE b

Positions == 1 .. WordLen

Range(f) == {f[x] : x \in DOMAIN f}

EmptyMap == [x \in {} |-> None]

\* the orders in which a range over a map with key set S can visit the keys
Orders(S) ==
    {o \in [1 .. Cardinality(S) -> S] : \A x \in S : \E i \in DOMAIN o : o[i] = x}

\* number of occurrences of letter c in word w
CountLetter(c, w) == Cardinality({i \in Positions : w[i] = c})

\* strings.ContainsRune(answer, ch)
ContainsRune(answer, ch) == \E i \in Positions : answer[i] = ch

----------------------------------------------------------------------------
\* Feedback codec: getHint

\* first loop of getHint: the per-position digit
charHints(guess, answer) ==
    [i \in Positions |->
        IF answer[i] = guess[i] THEN Correct
        ELSE IF ContainsRune(answer, guess[i]) THEN Present
        ELSE Absent]

\* mutant: the accumulator is 7 bits wide
FoldStepNarrow(ret, d) == ((ret * HintBase) + d) % (Uint8Range \div 2)

\* one step of the fold: ret = (ret * 3) + d in a uint8
FoldStep(ret, d) == ((ret * HintBase) + d) % Uint8Range

RECURSIVE FoldDigits(_, _, _)
FoldDigits(digits, i, ret) ==
    IF i > Len(digits) THEN ret
    ELSE FoldDigits(digits, i + 1, FoldStep(ret, digits[i]))

getHint(guess, answer) ==
    FoldDigits([i \in Positions |-> charHints(guess, answer)[i]], 1, 0)

\* wordle_solver.cu, getHint: the first loop marks the exact matches
cudaExactMatches(guess, answer) ==
    [i \in Positions |-> IF guess[i] = answer[i] THEN Correct ELSE Absent]

\* wordle_solver.cu, getHint: the second loop, for i in turn.  Position i not
\* yet marked becomes 1 when some j # i with charHints[j] # 2 has
\* guess[i] == answer[j], unless alreadyUsed: an earlier k < i is marked 1
\* with the same letter (alreadyUsed does not depend on j, so the loop over j
\* marks i at the first such j or not at all)
RECURSIVE cudaWrongPositions(_, _, _, _)
cudaWrongPositions(i, hints, guess, answer) ==
    IF i > WordLen THEN hints
    ELSE LET found       == \E j \in Positions :
                                i # j /\ hints[j] # Correct /\ guess[i] = answer[j]
             alreadyUsed == \E k \in 1 .. (i - 1) :
                                hints[k] = Present /\ guess[k] = guess[i]
         IN  cudaWrongPositions(i + 1,
                 IF hints[i] = Absent /\ found /\ ~alreadyUsed
                 THEN [hints EXCEPT ![i] = Present] ELSE hints,
                 guess, answer)

\* wordle_solver.cu, getHint: the base-3 fold in an unsigned char
cudaGetHint(guess, answer) ==
    FoldDigits(cudaWrongPositions(1, cudaExactMatches(guess, answer), guess, answer),
               1, 0)

\* Hint.ColoredWord's digit extraction: digits[i] = hintValue % 3; hintValue /= 3,
\* for i = 4 down to 0
RECURSIVE ExtractDigits(_, _, _)
ExtractDigits(hintValue, i, digits) ==
    IF i < 1 THEN digits
    ELSE ExtractDigits(hintValue \div HintBase, i - 1,
                       [digits EXCEPT ![i] = hintValue % HintBase])

HintDigits(h) == ExtractDigits(h, WordLen, [i \in Positions |-> 0])

\* the values a charHints element takes
TagValues == {Absent, Present, Correct}

\* some "ret = (ret * 3) + d" of the fold over digits has a result outside the
\* uint8 range, which the assignment reduces modulo 256
FoldOverflows(digits) ==
    \E i \in DOMAIN digits :
        (FoldDigits(SubSeq(digits, 1, i - 1), 1, 0) * HintBase) + digits[i]
            >= Uint8Range

FoldOff ==
    /\ foldPc = "off"
    /\ foldTags = None
    /\ foldRet = None
    /\ foldWrapped = None
    /\ foldDigits = None

\* var charHints [5]uint8 with every element 0, 1 or 2
FoldInit ==
    /\ foldPc = "input"
    /\ foldTags \in [Positions -> TagValues]
    /\ foldRet = None
    /\ foldWrapped = None
    /\ foldDigits = None

\* getHint: "for _, d := range charHints { ret = (ret * 3) + d }"
FoldEncode ==
    /\ foldPc = "input"
    /\ foldRet' = FoldDigits(foldTags, 1, 0)
    /\ foldWrapped' = FoldOverflows(foldTags)
    /\ foldPc' = "folded"
    /\ UNCHANGED <<foldTags, foldDigits>>

\* Hint.ColoredWord: "for i := 4; i >= 0; i-- { digits[i] = ...; hintValue /= 3 }"
FoldDecode ==
    /\ foldPc = "folded"
    /\ foldDigits' = HintDigits(foldRet)
    /\ foldPc' = "extracted"
    /\ UNCHANGED <<foldTags, foldRet, foldWrapped>>

----------------------------------------------------------------------------
\* Bitvec

\* a Bitvec: Bytes is the sequence of uint64 words, each word the set of its
\* 1 bits (bit positions 0 .. 63)
NewBitvec(size) ==
    [Bytes |-> [k \in 1 .. ((size + (WordBits - 1)) \div WordBits) |-> {}],
     Size  |-> size,
     Count |-> 0]

\* mutant: Count is incremented without the test of the bit
BitvecSetAlways(bv, index) ==
    [bv EXCEPT !.Bytes[(index \div WordBits) + 1] = @ \cup {index % WordBits},
               !.Count = @ + 1]

BitvecSet(bv, index) ==
    LET byteIndex == index \div WordBits
        bitIndex  == index % WordBits
    IN  IF bitIndex \notin bv.Bytes[byteIndex + 1]
        THEN [bv EXCEPT !.Bytes[byteIndex + 1] = @ \cup {bitIndex},
                        !.Count = @ + 1]
        ELSE bv

BitvecGet(bv, index) ==
    (index % WordBits) \in bv.Bytes[(index \div WordBits) + 1]

\* bits.OnesCount64
OnesCount64(w) == Cardinality(w)

RECURSIVE SumCounts(_, _)
SumCounts(bytes, i) ==
    IF i > Len(bytes) THEN 0
    ELSE OnesCount64(bytes[i]) + SumCounts(bytes, i + 1)

\* mutant: the receiver's Count is kept instead of being recounted
BitvecAndKeepCount(bv, other) ==
    [Bytes |-> [i \in 1 .. Min(Len(other.Bytes), Len(bv.Bytes)) |->
                   bv.Bytes[i] \cap other.Bytes[i]],
     Size  |-> 0,
     Count |-> bv.Count]

\* Bitvec.And: a new Bitvec (Size left at its zero value)
BitvecAnd(bv, other) ==
    LET minLen == Min(Len(other.Bytes), Len(bv.Bytes))
        bytes  == [i \in 1 .. minLen |-> bv.Bytes[i] \cap other.Bytes[i]]
    IN  [Bytes |-> bytes, Size |-> 0, Count |-> SumCounts(bytes, 1)]

\* mutant: And computes the intersection in the receiver's own words
AndOperandsInPlace(bv, other) ==
    <<[bv EXCEPT !.Bytes = [i \in DOMAIN bv.Bytes |->
                               IF i <= Len(other.Bytes)
                               THEN bv.Bytes[i] \cap other.Bytes[i] ELSE bv.Bytes[i]],
                 !.Count = BitvecAnd(bv, other).Count],
      other>>

\* Bitvec.And: the receiver and the argument after the call (And reads
\* bv.Bytes and other.Bytes and writes only to result)
AndOperands(bv, other) == <<bv, other>>

\* the indices whose bit is 1 (those for which Get returns true)
SetIndices(bv) ==
    UNION {{((k - 1) * WordBits) + b : b \in bv.Bytes[k]} : k \in DOMAIN bv.Bytes}

----------------------------------------------------------------------------
\* Structural path: AnalyzeWordle, WordSatisfiesConstraints, FilterWords

LettersOf(w) == {w[i] : i \in Positions}

NewLetterInfo ==
    [MustBeInPositions |-> <<>>, CantBeInPositions |-> <<>>,
     Frequency |-> 0, FrequencyIsExact |-> FALSE]

\* first pass of AnalyzeWordle: correct positions
RECURSIVE AnalyzeFirstPass(_, _, _, _)
AnalyzeFirstPass(i, st, target, guess) ==
    IF i > WordLen THEN st
    ELSE LET guessChar == guess[i] IN
         IF guessChar = target[i]
         THEN LET used == st.usedInstances[guessChar] + 1
                  info == [st.letterInfos[guessChar] EXCEPT
                             !.MustBeInPositions = Append(@, i - 1),
                             !.Frequency = Max(@, used)]
              IN  AnalyzeFirstPass(i + 1,
                     [letterInfos   |-> [st.letterInfos EXCEPT ![guessChar] = info],
                      usedInstances |-> [st.usedInstances EXCEPT ![guessChar] = used]],
                     target, guess)
         ELSE AnalyzeFirstPass(i + 1, st, target, guess)

\* second pass of AnalyzeWordle: wrong positions and frequency constraints
RECURSIVE AnalyzeSecondPass(_, _, _, _)
AnalyzeSecondPass(i, st, target, guess) ==
    IF i > WordLen THEN st
    ELSE LET guessChar   == guess[i]
             targetCount == CountLetter(guessChar, target)
             usedCount   == st.usedInstances[guessChar]
             info        == st.letterInfos[guessChar]
         IN
         IF guessChar = target[i]
         THEN AnalyzeSecondPass(i + 1, st, target, guess)
         ELSE IF targetCount = 0
         THEN AnalyzeSecondPass(i + 1,
                 [st EXCEPT !.letterInfos[guessChar] =
                     [info EXCEPT !.Frequency = 0, !.FrequencyIsExact = TRUE]],
                 target, guess)
         ELSE IF usedCount < targetCount
         THEN AnalyzeSecondPass(i + 1,
                 [letterInfos |-> [st.letterInfos EXCEPT ![guessChar] =
                     [info EXCEPT !.CantBeInPositions = Append(@, i - 1),
                                  !.Frequency = Max(@, usedCount + 1)]],
                  usedInstances |-> [st.usedInstances EXCEPT ![guessChar] = usedCount + 1]],
                 target, guess)
         ELSE AnalyzeSecondPass(i + 1,
                 [st EXCEPT !.letterInfos[guessChar] =
                     [info EXCEPT !.CantBeInPositions = Append(@, i - 1),
                                  !.Frequency = targetCount,
                                  !.FrequencyIsExact = TRUE]],
                 target, guess)

\* last loop of AnalyzeWordle: "mark exact frequency for letters we fully mapped"
MarkExact(letterInfos) ==
    [c \in DOMAIN letterInfos |->
        LET info == letterInfos[c] IN
        IF ~info.FrequencyIsExact /\ info.Frequency > 0
              /\ Len(info.MustBeInPositions) = info.Frequency
        THEN [info EXCEPT !.FrequencyIsExact = TRUE]
        ELSE info]

\* AnalyzeWordle(target, guess).LetterInfos
AnalyzeWordle(target, guess) ==
    LET st0 == [letterInfos   |-> [c \in LettersOf(guess) |-> NewLetterInfo],
                usedInstances |-> [c \in LettersOf(guess) |-> 0]]
        st1 == AnalyzeFirstPass(1, st0, target, guess)
        st2 == AnalyzeSecondPass(1, st1, target, guess)
    IN  MarkExact(st2.letterInfos)

\* WordleAnalysis.WordSatisfiesConstraints
WordSatisfiesConstraints(letterInfos, word) ==
    \A letter \in DOMAIN letterInfos :
        LET info       == letterInfos[letter]
            actualFreq == CountLetter(letter, word)
        IN  /\ IF info.FrequencyIsExact
               THEN actualFreq = info.Frequency
               ELSE actualFreq >= info.Frequency
            /\ \A k \in DOMAIN info.MustBeInPositions :
                   word[info.MustBeInPositions[k] + 1] = letter
            /\ \A k \in DOMAIN info.CantBeInPositions :
                   word[info.CantBeInPositions[k] + 1] # letter

\* WordleAnalysis.FilterWords
FilterWords(letterInfos, candidates) ==
    SelectSeq(candidates, LAMBDA word : WordSatisfiesConstraints(letterInfos, word))

----------------------------------------------------------------------------
\* Precomputation: LetterInfo.Canonical, LetterInfo.IsValid,
\* GenerateAllLetterInfos

\* "freq <= 3"
MaxFreq == 3

\* "for pos := range 5"
PosSeq == [i \in 1 .. WordLen |-> i - 1]

\* "(bits & (1 << pos)) != 0"
BitIsSet(bits, pos) == (bits \div (2 ^ pos)) % 2 = 1

\* slices.Contains(s, v)
SliceContains(s, v) == \E k \in DOMAIN s : s[k] = v

\* sort.Ints: insertion of v into the sorted slice s
RECURSIVE InsertSorted(_, _)
InsertSorted(s, v) ==
    IF s = << >> THEN <<v>>
    ELSE IF v <= Head(s) THEN <<v>> \o s
    ELSE <<Head(s)>> \o InsertSorted(Tail(s), v)

RECURSIVE SortInts(_)
SortInts(s) ==
    IF s = << >> THEN << >> ELSE InsertSorted(SortInts(Tail(s)), Head(s))

\* the decimal digits of a position or a frequency (0..9) as %d prints them
DigitString(n) ==
    CASE n = 0 -> "0" [] n = 1 -> "1" [] n = 2 -> "2" [] n = 3 -> "3"
      [] n = 4 -> "4" [] n = 5 -> "5" [] n = 6 -> "6" [] n = 7 -> "7"
      [] n = 8 -> "8" [] n = 9 -> "9"

\* %v of a []int: "[" the elements separated by one space "]"
RECURSIVE FormatInts(_)
FormatInts(s) ==
    IF s = << >> THEN << >>
    ELSE IF Len(s) = 1 THEN <<DigitString(s[1])>>
    ELSE <<DigitString(s[1]), " ">> \o FormatInts(Tail(s))

\* LetterInfo.Canonical: the string, as the sequence of its pieces
Canonical(l) ==
    <<"must:", "[">> \o FormatInts(SortInts(l.MustBeInPositions)) \o <<"]">>
        \o <<",cant:", "[">> \o FormatInts(SortInts(l.CantBeInPositions)) \o <<"]">>
        \o <<",freq:", DigitString(l.Frequency)>>
        \o <<",exact:", IF l.FrequencyIsExact THEN "true" ELSE "false">>

\* mutant: every descriptor passes
IsValidAlways(l) == TRUE

\* LetterInfo.IsValid
IsValid(l) ==
    IF l.Frequency = 0
    THEN Len(l.MustBeInPositions) = 0 /\ l.FrequencyIsExact
    ELSE IF Len(l.MustBeInPositions) > l.Frequency THEN FALSE
    ELSE ~\E k \in DOMAIN l.MustBeInPositions :
             SliceContains(l.CantBeInPositions, l.MustBeInPositions[k])

\* the positions whose bit is set in mustBits, in the order of the loop
MustPositionsOf(mustBits) == SelectSeq(PosSeq, LAMBDA pos : BitIsSet(mustBits, pos))

\* the loop over pos for one cantBits: hasOverlap and cantPositions at its end
RECURSIVE CantPositionsLoop(_, _, _, _)
CantPositionsLoop(cantBits, mustPositions, pos, cantPositions) ==
    IF pos >= WordLen THEN [hasOverlap |-> FALSE, cantPositions |-> cantPositions]
    ELSE IF BitIsSet(cantBits, pos)
    THEN IF SliceContains(mustPositions, pos)
         THEN [hasOverlap |-> TRUE, cantPositions |-> cantPositions]
         ELSE CantPositionsLoop(cantBits, mustPositions, pos + 1,
                                Append(cantPositions, pos))
    ELSE CantPositionsLoop(cantBits, mustPositions, pos + 1, cantPositions)

\* the body of "for cantBits := range 1 << 5" up to the validity test:
\* hasOverlap and the descriptor info
CandidateInfo(cantBits, mustPositions, freq, isExact) ==
    LET r == CantPositionsLoop(cantBits, mustPositions, 0, << >>) IN
    [hasOverlap |-> r.hasOverlap,
     info       |-> [MustBeInPositions |-> mustPositions,
                     CantBeInPositions |-> r.cantPositions,
                     Frequency         |-> freq,
                     FrequencyIsExact  |-> isExact]]

\* "for cantBits := range 1 << 5": the descriptors appended for one mustBits,
\* in the order of the loop
CantBitsLoop(mustPositions, freq, isExact) ==
    LET tried == [n \in 1 .. (2 ^ WordLen) |->
                     CandidateInfo(n - 1, mustPositions, freq, isExact)]
        kept  == SelectSeq(tried, LAMBDA t : ~t.hasOverlap /\ IsValid(t.info))
    IN  [k \in 1 .. Len(kept) |-> kept[k].info]

\* one iteration of "for mustBits := range 1 << 5": allInfos at its end
GenerateBody(freq, exactness, mustBits, infos) ==
    LET isExact       == exactness = 1
        mustPositions == MustPositionsOf(mustBits)
    IN  IF Len(mustPositions) > freq THEN infos
        ELSE infos \o CantBitsLoop(mustPositions, freq, isExact)

GenOff ==
    /\ genPc = "off"
    /\ genFreq = 0
    /\ genExactness = 0
    /\ genMustBits = 0
    /\ allInfos = << >>

\* GenerateAllLetterInfos is called: var allInfos []LetterInfo, freq := 0
GenInit ==
    /\ genPc = "run"
    /\ genFreq = 0
    /\ genExactness = 0
    /\ genMustBits = 0
    /\ allInfos = << >>

\* one iteration of "for mustBits := range 1 << 5" (with the whole loop over
\* cantBits), then the increments of the three enclosing loops
GenerateStep ==
    /\ genPc = "run"
    /\ allInfos' = GenerateBody(genFreq, genExactness, genMustBits, allInfos)
    /\ IF genMustBits + 1 < 2 ^ WordLen
       THEN /\ genMustBits' = genMustBits + 1
            /\ UNCHANGED <<genPc, genFreq, genExactness>>
       ELSE /\ genMustBits' = 0
            /\ IF genExactness + 1 < 2
               THEN /\ genExactness' = genExactness + 1
                    /\ UNCHANGED <<genPc, genFreq>>
               ELSE /\ genExactness' = 0
                    /\ IF genFreq + 1 <= MaxFreq
                       THEN /\ genFreq' = genFreq + 1
                            /\ UNCHANGED genPc
                       ELSE /\ genPc' = "done"
                            /\ UNCHANGED genFreq
    /\ UNCHANGED <<bitvecVars, foldVars, minByVars, codecVars, programVars>>

----------------------------------------------------------------------------
\* Precomputed constraints: Bitvector, TestLetterConstraint,
\* BuildPrecomputedConstraints, and the bitvector filter of DemoMain

\* bitvector.go: a Bitvector has no Size field
NewBitvector(size) ==
    [Bytes |-> [k \in 1 .. ((size + (WordBits - 1)) \div WordBits) |-> {}],
     Count |-> 0]

BitvectorSet(bv, index) ==
    LET byteIndex == index \div WordBits
        bitIndex  == index % WordBits
    IN  IF bitIndex \notin bv.Bytes[byteIndex + 1]
        THEN [bv EXCEPT !.Bytes[byteIndex + 1] = @ \cup {bitIndex},
                        !.Count = @ + 1]
        ELSE bv

BitvectorAnd(bv, other) ==
    LET minLen == Min(Len(other.Bytes), Len(bv.Bytes))
        bytes  == [i \in 1 .. minLen |-> bv.Bytes[i] \cap other.Bytes[i]]
    IN  [Bytes |-> bytes, Count |-> SumCounts(bytes, 1)]

\* Bitvector.GetSetIndices: the indices of the 1 bits, in ascending order
GetSetIndices(bv) ==
    LET all == [n \in 1 .. (Len(bv.Bytes) * WordBits) |-> n - 1]
    IN  SelectSeq(all, LAMBDA index :
                          (index % WordBits) \in bv.Bytes[(index \div WordBits) + 1])

TestLetterConstraint(word, letter, info) ==
    LET freq == CountLetter(letter, word) IN
    /\ IF info.Frequency = 0 THEN ~(freq > 0)
       ELSE IF info.FrequencyIsExact THEN ~(freq # info.Frequency)
       ELSE ~(freq < info.Frequency)
    /\ \A k \in DOMAIN info.MustBeInPositions :
           ~(word[info.MustBeInPositions[k] + 1] # letter)
    /\ \A k \in DOMAIN info.CantBeInPositions :
           ~(word[info.CantBeInPositions[k] + 1] = letter)

\* GenerateAllLetterInfos run to its end.  The three loops make
\* (MaxFreq + 1) * 2 * 2^5 iterations of the body, numbered from 0; every
\* iteration only appends, so the descriptors appended by the iterations
\* lo .. hi are those of lo .. mid followed by those of mid + 1 .. hi
RECURSIVE GenerateRange(_, _)
GenerateRange(lo, hi) ==
    IF lo = hi
    THEN GenerateBody(lo \div (2 * (2 ^ WordLen)), (lo \div (2 ^ WordLen)) % 2,
                      lo % (2 ^ WordLen), << >>)
    ELSE LET mid == (lo + hi) \div 2
         IN  GenerateRange(lo, mid) \o GenerateRange(mid + 1, hi)

GenerateAllLetterInfos == GenerateRange(0, ((MaxFreq + 1) * 2 * (2 ^ WordLen)) - 1)

\* LetterConstraintKey.Hash: the first 8 bytes of the SHA-256 of
\* "letter:canonical"; the hash stands for the string it is computed from
\* (two keys have the same hash when their canonical strings are the same)
KeyHash(letter, info) == <<letter, Canonical(info)>>

\* the Canonical() strings of the generated descriptors, in order
GeneratedCanonicals ==
    [k \in DOMAIN GenerateAllLetterInfos |-> Canonical(GenerateAllLetterInfos[k])]

\* the loop over allInfos of BuildPrecomputedConstraints for one letter: the
\* descriptor whose bitvector is stored under each canonical string is the
\* first one with that string (a descriptor whose hash is already there is
\* skipped)
PrecomputedInfos ==
    [canonical \in Range(GeneratedCanonicals) |->
        GenerateAllLetterInfos[
            CHOOSE k \in DOMAIN GeneratedCanonicals :
                /\ GeneratedCanonicals[k] = canonical
                /\ \A j \in 1 .. (k - 1) : GeneratedCanonicals[j] # canonical]]

\* "for i, word := range words": the bitvector of one (letter, info)
RECURSIVE ConstraintBitvector(_, _, _, _, _)
ConstraintBitvector(words, letter, info, i, bv) ==
    IF i >= Len(words) THEN bv
    ELSE ConstraintBitvector(words, letter, info, i + 1,
             IF TestLetterConstraint(words[i + 1], letter, info)
             THEN BitvectorSet(bv, i) ELSE bv)

\* BuildPrecomputedConstraints(words).Constraints, read at one hash: whether
\* the hash is a key, and the bitvector stored under it
ConstraintExists(hash) ==
    /\ hash[1] \in 0 .. (AlphabetSize - 1)
    /\ hash[2] \in DOMAIN PrecomputedInfos

PrecomputedConstraint(words, hash) ==
    ConstraintBitvector(words, hash[1], PrecomputedInfos[hash[2]], 0,
                        NewBitvector(Len(words)))

\* validWordsFunc: "result.Set(i)" for every candidate
RECURSIVE AllCandidates(_, _, _)
AllCandidates(candidates, i, result) ==
    IF i >= Len(candidates) THEN result
    ELSE AllCandidates(candidates, i + 1, BitvectorSet(result, i))

\* validWordsFunc: "for letter, info := range analysis.LetterInfos", the
\* letters visited in the given order
RECURSIVE ApplyConstraints(_, _, _, _, _)
ApplyConstraints(words, letterInfos, order, n, result) ==
    IF n > Len(order) THEN result
    ELSE LET hash == KeyHash(order[n], letterInfos[order[n]]) IN
         ApplyConstraints(words, letterInfos, order, n + 1,
             IF ConstraintExists(hash)
             THEN BitvectorAnd(result, PrecomputedConstraint(words, hash))
             ELSE result)

\* validWordsFunc(candidates, analysis), precomputed over the same word list
validWordsFunc(candidates, letterInfos, order) ==
    IF Len(candidates) = 0 THEN << >>
    ELSE LET result  == ApplyConstraints(candidates, letterInfos, order, 1,
                            AllCandidates(candidates, 0,
                                          NewBitvector(Len(candidates))))
             indices == GetSetIndices(result)
         IN  [k \in DOMAIN SelectSeq(indices, LAMBDA idx : idx < Len(candidates)) |->
                 candidates[SelectSeq(indices, LAMBDA idx : idx < Len(candidates))[k] + 1]]

----------------------------------------------------------------------------
\* Bitvector objects under sequences of NewBitvec / Set / And

\* bound: number of bitvectors allocated in a run
MaxBitvecs == 3

\* the sizes handed to NewBitvec: one word, two words
BitvecSizes == {1, WordBits + 1}

\* the indices handed to Set: first word, second word
BitvecIndices == {0, WordBits}

BitvecOff ==
    /\ bvKind = "off"
    /\ bvs = << >>

BitvecInit ==
    /\ bvKind \in {"Bitvec", "Bitvector"}
    /\ bvs = << >>

\* the three operations of the type chosen for the run
NewOf(kind, size) ==
    IF kind = "Bitvec" THEN NewBitvec(size) ELSE NewBitvector(size)

SetOf(kind, bv, index) ==
    IF kind = "Bitvec" THEN BitvecSet(bv, index) ELSE BitvectorSet(bv, index)

AndOf(kind, bv, other) ==
    IF kind = "Bitvec" THEN BitvecAnd(bv, other) ELSE BitvectorAnd(bv, other)

\* bv := NewBitvec(size)
BvNew(size) ==
    /\ bvKind # "off"
    /\ Len(bvs) < MaxBitvecs
    /\ bvs' = Append(bvs, NewOf(bvKind, size))
    /\ UNCHANGED <<bvKind, genVars, foldVars, minByVars, codecVars, programVars>>

\* bvs[r].Set(index): the receiver is changed in place; an index beyond the
\* last word panics (index out of range) and changes nothing
BvSet(r, index) ==
    /\ bvKind # "off"
    /\ index \div WordBits < Len(bvs[r].Bytes)
    /\ bvs' = [bvs EXCEPT ![r] = SetOf(bvKind, @, index)]
    /\ UNCHANGED <<bvKind, genVars, foldVars, minByVars, codecVars, programVars>>

\* result := bvs[r1].And(bvs[r2]): a new object
BvAnd(r1, r2) ==
    /\ bvKind # "off"
    /\ Len(bvs) < MaxBitvecs
    /\ bvs' = Append(bvs, AndOf(bvKind, bvs[r1], bvs[r2]))
    /\ UNCHANGED <<bvKind, genVars, foldVars, minByVars, codecVars, programVars>>

----------------------------------------------------------------------------
\* utils.go: MinBy

\* bound: length of the slice handed to MinBy
MaxSliceLen == 3

\* the elements (T = int, so the zero value is 0 and is not an element) and
\* the keys (K = int)
Elems == {1, 2, 3}
KeyValues == {0, 1, 2}
ZeroValue == 0

RECURSIVE SlicesUpTo(_)
SlicesUpTo(n) ==
    IF n = 0 THEN { << >> }
    ELSE SlicesUpTo(n - 1) \cup [1 .. n -> Elems]

MinByOff ==
    /\ minByPc = "off"
    /\ slice = << >>
    /\ keyFunc = None
    /\ minKey = None
    /\ minVal = None
    /\ minByMu = 0
    /\ minByWg = 0
    /\ minByNext = 1
    /\ goPc = << >>
    /\ goVal = << >>
    /\ minByRet = None

\* MinBy(slice, keyFunc) is called
MinByInit ==
    /\ minByPc = "call"
    /\ slice \in SlicesUpTo(MaxSliceLen)
    /\ keyFunc \in [Elems -> KeyValues]
    /\ minKey = None
    /\ minVal = None
    /\ minByMu = 0
    /\ minByWg = 0
    /\ minByNext = 1
    /\ goPc = [k \in DOMAIN slice |-> "idle"]
    /\ goVal = [k \in DOMAIN slice |-> None]
    /\ minByRet = None

\* "if len(slice) == 0 { return zero }", else minKey := slice[0],
\* minVal := keyFunc(minKey), and the zero values of mu and wg
MinByStart ==
    /\ minByPc = "call"
    /\ IF Len(slice) = 0
       THEN /\ minByRet' = ZeroValue
            /\ minByPc' = "returned"
            /\ UNCHANGED <<minKey, minVal>>
       ELSE /\ minKey' = slice[1]
            /\ minVal' = keyFunc[slice[1]]
            /\ minByPc' = "spawn"
            /\ UNCHANGED minByRet
    /\ UNCHANGED <<slice, keyFunc, minByMu, minByWg, minByNext, goPc, goVal>>

\* one iteration of "for _, key := range slice": wg.Add(1) and the go
\* statement; key is a variable of the iteration, so goroutine k has slice[k-1]
MinBySpawn ==
    /\ minByPc = "spawn"
    /\ minByNext <= Len(slice)
    /\ minByWg' = minByWg + 1
    /\ goPc' = [goPc EXCEPT ![minByNext] = "run"]
    /\ minByNext' = minByNext + 1
    /\ UNCHANGED <<minByPc, slice, keyFunc, minKey, minVal, minByMu, goVal, minByRet>>

\* the range loop is over: main reaches wg.Wait()
MinByLoopEnd ==
    /\ minByPc = "spawn"
    /\ minByNext > Len(slice)
    /\ minByPc' = "wait"
    /\ UNCHANGED <<slice, keyFunc, minKey, minVal, minByMu, minByWg, minByNext,
                   goPc, goVal, minByRet>>

\* goroutine k: val := keyFunc(key), then mu.Lock() once the mutex is free
GoLock(k) ==
    /\ goPc[k] = "run"
    /\ minByMu = 0
    /\ goVal' = [goVal EXCEPT ![k] = keyFunc[slice[k]]]
    /\ minByMu' = k
    /\ goPc' = [goPc EXCEPT ![k] = "cmp"]
    /\ UNCHANGED <<minByPc, slice, keyFunc, minKey, minVal, minByWg, minByNext,
                   minByRet>>

\* mutant: the comparison is turned round
MinByGreater(val, min) == val > min

\* "if val < minVal"
MinByLess(val, min) == val < min

\* goroutine k: the comparison and, when it holds, "minVal = val"
GoCompare(k) ==
    /\ goPc[k] = "cmp"
    /\ IF MinByLess(goVal[k], minVal)
       THEN /\ minVal' = goVal[k]
            /\ goPc' = [goPc EXCEPT ![k] = "write"]
       ELSE /\ goPc' = [goPc EXCEPT ![k] = "unlock"]
            /\ UNCHANGED minVal
    /\ UNCHANGED <<minByPc, slice, keyFunc, minKey, minByMu, minByWg, minByNext,
                   goVal, minByRet>>

\* goroutine k: "minKey = key"
GoWrite(k) ==
    /\ goPc[k] = "write"
    /\ minKey' = slice[k]
    /\ goPc' = [goPc EXCEPT ![k] = "unlock"]
    /\ UNCHANGED <<minByPc, slice, keyFunc, minVal, minByMu, minByWg, minByNext,
                   goVal, minByRet>>

\* goroutine k: mu.Unlock(), then the deferred wg.Done() as the function returns
GoUnlock(k) ==
    /\ goPc[k] = "unlock"
    /\ minByMu' = 0
    /\ minByWg' = minByWg - 1
    /\ goPc' = [goPc EXCEPT ![k] = "done"]
    /\ UNCHANGED <<minByPc, slice, keyFunc, minKey, minVal, minByNext, goVal,
                   minByRet>>

\* wg.Wait() returns when the counter is 0, then "return minKey"
MinByReturn ==
    /\ minByPc = "wait"
    /\ minByWg = 0
    /\ minByRet' = minKey
    /\ minByPc' = "returned"
    /\ UNCHANGED <<slice, keyFunc, minKey, minVal, minByMu, minByWg, minByNext,
                   goPc, goVal>>

----------------------------------------------------------------------------
\* Package hint: New

\* mutant: the first loop leaves sequence[i] as it is
MarkSequenceSkip(sequence, i) == sequence

\* "hint.sequence[i] = 2", the last statement of the body of the first loop
MarkSequence(sequence, i) == [sequence EXCEPT ![i] = Correct]

\* the first loop: a Green is appended where guess[i] == answer[i], and the
\* body ends with MarkSequence
RECURSIVE NewGreensLoop(_, _, _, _)
NewGreensLoop(hint, guess, answer, i) ==
    IF i > WordLen THEN hint
    ELSE NewGreensLoop(
             [sequence |-> MarkSequence(hint.sequence, i),
              greens   |-> IF guess[i] = answer[i]
                           THEN Append(hint.greens, [char |-> guess[i], idx |-> i - 1])
                           ELSE hint.greens],
             guess, answer, i + 1)

\* the second loop: answer[i] for the i with hint.sequence[i] == 0
unHintedAtChars(sequence, answer) ==
    LET idxs == SelectSeq([i \in Positions |-> i], LAMBDA i : sequence[i] = Absent)
    IN  [k \in 1 .. Len(idxs) |-> answer[idxs[k]]]

\* slices.Index(s, v), as an index of the TLA+ sequence
SliceIndex(s, v) ==
    CHOOSE j \in DOMAIN s : s[j] = v /\ \A k \in DOMAIN s : k < j => s[k] # v

\* slices.Remove(s, j, j+1)
SliceRemove(s, j) == SubSeq(s, 1, j - 1) \o SubSeq(s, j + 1, Len(s))

\* the third loop: a position not marked 2 whose letter is among the unhinted
\* chars is marked 1 and uses that char up
RECURSIVE NewYellowsLoop(_, _, _, _)
NewYellowsLoop(sequence, unHinted, guess, i) ==
    IF i > WordLen THEN sequence
    ELSE IF sequence[i] = Correct
         THEN NewYellowsLoop(sequence, unHinted, guess, i + 1)
    ELSE IF SliceContains(unHinted, guess[i])
         THEN NewYellowsLoop([sequence EXCEPT ![i] = Present],
                             SliceRemove(unHinted, SliceIndex(unHinted, guess[i])),
                             guess, i + 1)
    ELSE NewYellowsLoop(sequence, unHinted, guess, i + 1)

\* hint.New(guess, answer): the fields it sets (rank, duplicates, yellows and
\* grays keep their zero values)
hintNew(guess, answer) ==
    LET greened == NewGreensLoop([sequence |-> [i \in Positions |-> 0],
                                  greens   |-> << >>], guess, answer, 1)
    IN  [sequence |-> NewYellowsLoop(greened.sequence,
                                     unHintedAtChars(greened.sequence, answer),
                                     guess, 1),
         greens   |-> greened.greens]

----------------------------------------------------------------------------
\* Vocabularies of the program runs

\* bounds: length of the guess list, of the answer list, of a scored guess list
MaxGuesses == 3
MaxAnswers == 5
MaxScoreGuesses == 3

\* abcde, fghij, klmno: pairwise disjoint; abcdf shares letters with the first
\* two; aabcd has a repeated letter
GuessPool ==
    << <<0, 1, 2, 3, 4>>, <<5, 6, 7, 8, 9>>, <<10, 11, 12, 13, 14>>,
       <<0, 1, 2, 3, 5>>, <<0, 0, 1, 2, 3>> >>

\* akxxk, aakkk, aaxxx, xaxxa, fxxxk, xgxlx
AnswerPool ==
    << <<0, 10, 23, 23, 10>>, <<0, 0, 10, 10, 10>>, <<0, 0, 23, 23, 23>>,
       <<23, 0, 23, 23, 0>>, <<5, 23, 23, 23, 10>>, <<23, 6, 23, 11, 23>> >>

\* the sub-lists of pool (order kept) with at most n words
RECURSIVE SubLists(_, _)
SubLists(pool, n) ==
    IF pool = << >> \/ n = 0 THEN { << >> }
    ELSE SubLists(Tail(pool), n)
            \cup { <<Head(pool)>> \o t : t \in SubLists(Tail(pool), n - 1) }

GuessLists == SubLists(GuessPool, MaxGuesses)

AnswerLists == {SubSeq(AnswerPool, 1, n) : n \in 1 .. Min(MaxAnswers, Len(AnswerPool))}

----------------------------------------------------------------------------
\* Candidate index: calculateHints, calculateBitvecs, lookupBitvec

\* body of the goroutine's loop in calculateHints, for one answer
HintsLoopBody(guessInfo, guess, answer) ==
    LET hint == getHint(guess, answer) IN
    [AnswerHints |-> [a \in DOMAIN guessInfo.AnswerHints \cup {answer} |->
                        IF a = answer THEN hint ELSE guessInfo.AnswerHints[a]],
     HintsMap    |-> IF hint \in DOMAIN guessInfo.HintsMap
                     THEN guessInfo.HintsMap
                     ELSE guessInfo.HintsMap @@ (hint :> NewBitvec(Len(answers)))]

\* mutant: the comparison of the stored hint with the bucket's hint is dropped
HintMatchesAlways(hint2, hint) == TRUE

\* calculateBitvecs: "if hint2 == hint"
HintMatches(hint2, hint) == hint2 = hint

\* calculateBitvecs: the loop over the answers for one hint of one guess
RECURSIVE BitvecsInnerLoop(_, _, _, _)
BitvecsInnerLoop(bitvec, guessInfo, hint, answerIdx) ==
    IF answerIdx >= Len(answers) THEN bitvec
    ELSE LET hint2 == guessInfo.AnswerHints[answers[answerIdx + 1]] IN
         BitvecsInnerLoop(IF HintMatches(hint2, hint)
                          THEN BitvecSet(bitvec, answerIdx) ELSE bitvec,
                          guessInfo, hint, answerIdx + 1)

lookupBitvec(guess, answer) ==
    LET answerHints == guessesMap[guess].AnswerHints
        hintsMap    == guessesMap[guess].HintsMap
    IN  hintsMap[answerHints[answer]]

GuessIdx == 1 .. Len(guesses)

\* calculateHints: one iteration of "for _, guess := range guesses": the new
\* GuessInfo is stored, the WaitGroup is incremented, the goroutine is started
HintsSpawn ==
    /\ pcMain = "calculateHints"
    /\ hNext <= Len(guesses)
    /\ guessesMap' = [g \in DOMAIN guessesMap \cup {guesses[hNext]} |->
                        IF g = guesses[hNext]
                        THEN [AnswerHints |-> EmptyMap, HintsMap |-> EmptyMap]
                        ELSE guessesMap[g]]
    /\ wg' = wg + 1
    /\ hPc' = [hPc EXCEPT ![hNext] = "run"]
    /\ hNext' = hNext + 1
    /\ UNCHANGED <<unitVars, codecVars, inputVars, pcMain, bPc, query, searchVars>>

\* the goroutine's loop "for _, answer := range answers"
RECURSIVE HintsLoop(_, _, _)
HintsLoop(guessInfo, guess, idx) ==
    IF idx > Len(answers) THEN guessInfo
    ELSE HintsLoop(HintsLoopBody(guessInfo, guess, answers[idx]), guess, idx + 1)

\* calculateHints goroutine of guess k: it writes only the two maps of its own
\* guess, so its body is one step: the loop over the answers, then the
\* deferred wg.Done()
HintsGoroutine(k) ==
    /\ hPc[k] = "run"
    /\ guessesMap' = [guessesMap EXCEPT ![guesses[k]] = HintsLoop(@, guesses[k], 1)]
    /\ hPc' = [hPc EXCEPT ![k] = "done"]
    /\ wg' = wg - 1
    /\ UNCHANGED <<unitVars, codecVars, inputVars, pcMain, hNext, bPc, query, searchVars>>

\* calculateHints: wg.Wait() returns; main goes on to calculateBitvecs
HintsWait ==
    /\ pcMain = "calculateHints"
    /\ hNext > Len(guesses)
    /\ wg = 0
    /\ pcMain' = "calculateBitvecs"
    /\ UNCHANGED <<unitVars, codecVars, inputVars, guessesMap, wg, indexVars, query, searchVars>>

\* calculateBitvecs: one iteration of "for _, guessInfo := range guessesMap"
\* (a map: the order is not fixed)
BitvecsSpawn(k) ==
    /\ pcMain = "calculateBitvecs"
    /\ bPc[k] = "idle"
    /\ wg' = wg + 1
    /\ bPc' = [bPc EXCEPT ![k] = "run"]
    /\ UNCHANGED <<unitVars, codecVars, inputVars, guessesMap, pcMain, hNext, hPc, query,
                   searchVars>>

\* "for hint, hintInfo := range guessInfo.HintsMap", visiting the hints in order
RECURSIVE BitvecsLoop(_, _, _)
BitvecsLoop(guessInfo, order, n) ==
    IF n > Len(order) THEN guessInfo
    ELSE BitvecsLoop([guessInfo EXCEPT !.HintsMap[order[n]] =
                         BitvecsInnerLoop(@, guessInfo, order[n], 0)],
                     order, n + 1)

\* calculateBitvecs goroutine of guess k: it writes only the Bitvecs of its
\* own guess, so its body is one step: the range over the hints in some
\* order, then the deferred wg.Done()
BitvecsGoroutine(k, order) ==
    /\ bPc[k] = "run"
    /\ order \in Orders(DOMAIN guessesMap[guesses[k]].HintsMap)
    /\ guessesMap' = [guessesMap EXCEPT ![guesses[k]] = BitvecsLoop(@, order, 1)]
    /\ bPc' = [bPc EXCEPT ![k] = "done"]
    /\ wg' = wg - 1
    /\ UNCHANGED <<unitVars, codecVars, inputVars, pcMain, hNext, hPc, query, searchVars>>

\* the orders open to goroutine k
OrdersOf(k) ==
    IF bPc[k] = "run" THEN Orders(DOMAIN guessesMap[guesses[k]].HintsMap) ELSE {}

\* calculateBitvecs: wg.Wait() returns; the index is built
BitvecsWait ==
    /\ pcMain = "calculateBitvecs"
    /\ \A k \in GuessIdx : bPc[k] # "idle"
    /\ wg = 0
    /\ pcMain' = "ready"
    /\ UNCHANGED <<unitVars, codecVars, inputVars, guessesMap, wg, indexVars, query, searchVars>>

IndexBuilt == pcMain \notin {"off", "calculateHints", "calculateBitvecs"}

----------------------------------------------------------------------------
\* Scoring: AvgNumCandidates, MaxNumCandidates

\* mutant: the short-circuit fires only below 2 candidates
ShortCircuitBelow(bitvec) == bitvec.Count < SolvedCount

\* "if bitvec.Count <= 2"
ShortCircuit(bitvec) == bitvec.Count <= SolvedCount

\* the loop over the further guesses for one answer: the final bitvec and broke
RECURSIVE ScoreInnerLoop(_, _, _)
ScoreInnerLoop(bitvec, rest, answer) ==
    IF rest = << >> THEN [bitvec |-> bitvec, broke |-> FALSE]
    ELSE IF ShortCircuit(bitvec) THEN [bitvec |-> bitvec, broke |-> TRUE]
    ELSE ScoreInnerLoop(BitvecAnd(bitvec, lookupBitvec(Head(rest), answer)),
                        Tail(rest), answer)

\* what one answer adds to tot (AvgNumCandidates) or offers to max (MaxNumCandidates)
AnswerTerm(firstGuess, rest, answer) ==
    LET r == ScoreInnerLoop(lookupBitvec(firstGuess, answer), rest, answer)
    IN  IF r.broke THEN 1 ELSE r.bitvec.Count

RECURSIVE AvgLoop(_, _, _, _)
AvgLoop(firstGuess, rest, k, tot) ==
    IF k > Len(answers) THEN tot
    ELSE AvgLoop(firstGuess, rest, k + 1,
                 tot + AnswerTerm(firstGuess, rest, answers[k]))

\* AvgNumCandidates returns the float64 tot / float64(len(answers)): kept as the
\* fraction num / den (tot is a small integer, so the float64 quotients of two
\* totals over the same len(answers) compare as the fractions do)
AvgNumCandidates(firstGuess, rest) ==
    [num |-> AvgLoop(firstGuess, rest, 1, 0), den |-> Len(answers)]

RECURSIVE MaxLoop(_, _, _, _)
MaxLoop(firstGuess, rest, k, ret) ==
    IF k > Len(answers) THEN ret
    ELSE MaxLoop(firstGuess, rest, k + 1,
                 Max(ret, AnswerTerm(firstGuess, rest, answers[k])))

\* MaxNumCandidates returns an int: the fraction ret / 1
MaxNumCandidates(firstGuess, rest) ==
    [num |-> MaxLoop(firstGuess, rest, 1, 1), den |-> 1]

\* guessVal < bestGuessVal
ScoreLess(a, b) == a.num * b.den < b.num * a.den

\* the scoring call of findBestGuess: AvgNumCandidates in package main,
\* MaxNumCandidates in api/wordle.go
ScorePair(guess1, guess2) ==
    IF variant = "main" THEN AvgNumCandidates(guess1, <<guess2>>)
    ELSE MaxNumCandidates(guess1, <<guess2>>)

\* the Bitvec objects of the index are shared by pointer: lookupBitvec
\* returns the stored object, and the first And of the inner loop has it as
\* receiver.  StoreBitvec puts the object of (guess, answer) back after a call
\* that had it as an operand
StoreBitvec(map, guess, answer, bitvec) ==
    [map EXCEPT ![guess].HintsMap[map[guess].AnswerHints[answer]] = bitvec]

\* the index after the inner loop of the scoring functions for one answer;
\* stored tells whether bitvec still is the object returned by lookupBitvec
RECURSIVE ScoreInnerEffect(_, _, _, _, _, _)
ScoreInnerEffect(map, firstGuess, bitvec, stored, rest, answer) ==
    IF rest = << >> \/ ShortCircuit(bitvec) THEN map
    ELSE LET guess    == Head(rest)
             other    == map[guess].HintsMap[map[guess].AnswerHints[answer]]
             operands == AndOperands(bitvec, other)
             map1     == IF stored
                         THEN StoreBitvec(map, firstGuess, answer, operands[1])
                         ELSE map
             map2     == StoreBitvec(map1, guess, answer, operands[2])
         IN  ScoreInnerEffect(map2, firstGuess, BitvecAnd(bitvec, other), FALSE,
                              Tail(rest), answer)

\* the index after AvgNumCandidates / MaxNumCandidates(firstGuess, rest...)
RECURSIVE ScoreEffect(_, _, _, _)
ScoreEffect(map, firstGuess, rest, k) ==
    IF k > Len(answers) THEN map
    ELSE ScoreEffect(
             ScoreInnerEffect(map, firstGuess,
                 map[firstGuess].HintsMap[map[firstGuess].AnswerHints[answers[k]]],
                 TRUE, rest, answers[k]),
             firstGuess, rest, k + 1)

----------------------------------------------------------------------------
\* Scoring on the GPU: countMatchingAnswers, avgNumCandidates

\* hints[guessIdx * numAnswers + i], the table being the one of the index
HintTable(guess, i) == guessesMap[guess].AnswerHints[answers[i + 1]]

cudaAnswerIdx == 0 .. (Len(answers) - 1)

countMatchingAnswers(guess, targetHint) ==
    Cardinality({i \in cudaAnswerIdx : HintTable(guess, i) = targetHint})

\* the first i of the loop with hints[guess1Idx * numAnswers + i] == hint1,
\* where the loop breaks
cudaFirstMatch(guess1, hint1) ==
    CHOOSE i \in cudaAnswerIdx :
        /\ HintTable(guess1, i) = hint1
        /\ \A k \in cudaAnswerIdx : k < i => HintTable(guess1, k) # hint1

\* finalCandidates of one answer: hint2 is read at the first match
cudaFinalCandidates(guess1, guess2, hint1) ==
    LET hint2 == HintTable(guess2, cudaFirstMatch(guess1, hint1))
    IN  Cardinality({j \in cudaAnswerIdx :
                        /\ HintTable(guess1, j) = hint1
                        /\ HintTable(guess2, j) = hint2})

\* what one answerIdx adds to total
cudaAnswerTerm(guess1, guess2, answerIdx) ==
    LET hint1      == HintTable(guess1, answerIdx)
        candidates == countMatchingAnswers(guess1, hint1)
    IN  IF candidates <= SolvedCount THEN 1
        ELSE cudaFinalCandidates(guess1, guess2, hint1)

RECURSIVE cudaAvgLoop(_, _, _, _)
cudaAvgLoop(guess1, guess2, answerIdx, total) ==
    IF answerIdx >= Len(answers) THEN total
    ELSE cudaAvgLoop(guess1, guess2, answerIdx + 1,
                     total + cudaAnswerTerm(guess1, guess2, answerIdx))

\* avgNumCandidates returns total / (float)numAnswers: the fraction num / den
cudaAvgNumCandidates(guess1, guess2) ==
    [num |-> cudaAvgLoop(guess1, guess2, 0, 0), den |-> Len(answers)]

\* the GPU score of a scored list: the kernel scores pairs only
cudaScore(gl) ==
    IF Len(gl) = 2 THEN cudaAvgNumCandidates(gl[1], gl[2]) ELSE None

----------------------------------------------------------------------------
\* Calls on the built index: lookupBitvec against FilterWords, and the scores

NoQuery == [kind |-> "none"]

QueryCrossCheck(guess, answer) ==
    /\ pcMain = "ready"
    /\ query' = [kind   |-> "cross", guess |-> guess, answer |-> answer,
                 bitvec |-> lookupBitvec(guess, answer),
                 kept   |-> FilterWords(AnalyzeWordle(answer, guess), answers)]
    /\ pcMain' = "queried"
    /\ UNCHANGED <<unitVars, codecVars, inputVars, guessesMap, wg, indexVars, searchVars>>

QueryScore(gl) ==
    /\ pcMain = "ready"
    /\ query' = [kind |-> "score", guesses |-> gl,
                 avg  |-> AvgNumCandidates(Head(gl), Tail(gl)),
                 max  |-> MaxNumCandidates(Head(gl), Tail(gl)),
                 cuda |-> cudaScore(gl)]
    /\ guessesMap' = ScoreEffect(ScoreEffect(guessesMap, Head(gl), Tail(gl), 1),
                                 Head(gl), Tail(gl), 1)
    /\ pcMain' = "queried"
    /\ UNCHANGED <<unitVars, codecVars, inputVars, wg, indexVars, searchVars>>

\* the call returns: the index is ready for the next call
QueryReturn ==
    /\ pcMain = "queried"
    /\ query' = NoQuery
    /\ pcMain' = "ready"
    /\ UNCHANGED <<unitVars, codecVars, inputVars, guessesMap, wg, indexVars, searchVars>>

\* the guess lists handed to the scoring functions
RECURSIVE ListsOver(_, _)
ListsOver(S, n) ==
    IF n = 0 THEN { << >> }
    ELSE { << >> } \cup { <<x>> \o t : x \in S, t \in ListsOver(S, n - 1) }

ScoreLists == ListsOver(Range(guesses), MaxScoreGuesses) \ { << >> }

----------------------------------------------------------------------------
\* Search: findBestGuess

\* the letter-presence mask of a guess: bitvec.Set(int(guess[i] - 'a')), i in 0..4
RECURSIVE LetterMaskLoop(_, _, _)
LetterMaskLoop(bitvec, guess, i) ==
    IF i > WordLen THEN bitvec
    ELSE LetterMaskLoop(BitvecSet(bitvec, guess[i]), guess, i + 1)

LetterMask(guess) == LetterMaskLoop(NewBitvec(AlphabetSize), guess, 1)

\* "if bitvec.Count == 5"
HasDistinctLetters(guess) == LetterMask(guess).Count = WordLen

\* "if guessBitvecs[i].And(guessBitvecs[j]).Count != 0": the pair is skipped
SharesLetter(bv1, bv2) == BitvecAnd(bv1, bv2).Count # 0

\* guessBitvecs after guessBitvecs[i].And(guessBitvecs[j]): the two masks are
\* the operands of the call
MasksAfterAnd(i, j) ==
    LET operands == AndOperands(guessBitvecs[i], guessBitvecs[j])
    IN  [guessBitvecs EXCEPT ![i] = operands[1], ![j] = operands[2]]

\* mutant: the lock is not taken
MutexFreeAlways(m) == TRUE

\* mu.Lock() can proceed
MutexFree(m) == m = 0

Workers == 1 .. (Len(filteredGuesses) - 1)

\* findBestGuess up to the spawning loop: the filter, then the seed of the best
\* result from filteredGuesses[0] and filteredGuesses[1] (an index out of range
\* panics)
FindBestGuessStart ==
    /\ pcMain = "ready"
    /\ LET fg == SelectSeq(guesses, HasDistinctLetters) IN
       /\ filteredGuesses' = fg
       /\ guessBitvecs' = [k \in 1 .. Len(fg) |-> LetterMask(fg[k])]
       /\ IF Len(fg) < 2
          THEN /\ pcMain' = "panic"
               /\ UNCHANGED <<guessesMap, bestGuess1, bestGuess2, bestGuessVal,
                              scored, wPc, wJ, wVal>>
          ELSE /\ pcMain' = "spawn"
               /\ bestGuess1' = fg[1]
               /\ bestGuess2' = fg[2]
               /\ bestGuessVal' = ScorePair(fg[1], fg[2])
               /\ guessesMap' = ScoreEffect(guessesMap, fg[1], <<fg[2]>>, 1)
               /\ scored' = {<<fg[1], fg[2]>>}
               /\ wPc' = [i \in 1 .. (Len(fg) - 1) |-> "idle"]
               /\ wJ' = [i \in 1 .. (Len(fg) - 1) |-> i + 1]
               /\ wVal' = [i \in 1 .. (Len(fg) - 1) |-> None]
    /\ UNCHANGED <<unitVars, codecVars, inputVars, wg, indexVars, query, mu, sI,
                   reported>>

\* one iteration of "for i := range len(filteredGuesses) - 1": package main
\* calls wg.Add(1) here, api/wordle.go does not; the goroutine is started
SearchSpawn ==
    /\ pcMain = "spawn"
    /\ sI \in Workers
    /\ wg' = IF variant = "main" THEN wg + 1 ELSE wg
    /\ wPc' = [wPc EXCEPT ![sI] = "loop"]
    /\ sI' = sI + 1
    /\ UNCHANGED <<unitVars, codecVars, inputVars, guessesMap, pcMain, indexVars, query,
                   filteredGuesses, guessBitvecs, bestGuess1, bestGuess2,
                   bestGuessVal, mu, wJ, wVal, scored, reported>>

\* the process runs until main returns after the final Printf
ProcessAlive == pcMain # "done"

\* worker i at the head of its loop over j: the loop ends (package main: the
\* deferred wg.Done()), or the pair is skipped, or it is scored (api/wordle.go:
\* after wg.Add(1))
WorkerLoop(i) ==
    /\ ProcessAlive
    /\ wPc[i] = "loop"
    /\ IF wJ[i] > Len(filteredGuesses)
       THEN /\ wPc' = [wPc EXCEPT ![i] = "done"]
            /\ wg' = IF variant = "main" THEN wg - 1 ELSE wg
            /\ UNCHANGED <<guessesMap, guessBitvecs, wJ, wVal, scored>>
       ELSE IF SharesLetter(guessBitvecs[i], guessBitvecs[wJ[i]])
       THEN /\ guessBitvecs' = MasksAfterAnd(i, wJ[i])
            /\ wJ' = [wJ EXCEPT ![i] = @ + 1]
            /\ UNCHANGED <<guessesMap, wg, wPc, wVal, scored>>
       ELSE /\ guessBitvecs' = MasksAfterAnd(i, wJ[i])
            /\ wg' = IF variant = "api" THEN wg + 1 ELSE wg
            /\ wVal' = [wVal EXCEPT ![i] =
                           ScorePair(filteredGuesses[i], filteredGuesses[wJ[i]])]
            /\ guessesMap' = ScoreEffect(guessesMap, filteredGuesses[i],
                                         <<filteredGuesses[wJ[i]]>>, 1)
            /\ scored' = scored \cup {<<filteredGuesses[i], filteredGuesses[wJ[i]]>>}
            /\ wPc' = [wPc EXCEPT ![i] = "lock"]
            /\ UNCHANGED wJ
    /\ UNCHANGED <<unitVars, codecVars, inputVars, pcMain, indexVars, query,
                   filteredGuesses, bestGuess1, bestGuess2,
                   bestGuessVal, mu, sI, reported>>

\* mu.Lock()
WorkerLock(i) ==
    /\ ProcessAlive
    /\ wPc[i] = "lock"
    /\ MutexFree(mu)
    /\ mu' = i
    /\ wPc' = [wPc EXCEPT ![i] = "cmp"]
    /\ UNCHANGED <<unitVars, codecVars, inputVars, guessesMap, pcMain, wg, indexVars, query,
                   filteredGuesses, guessBitvecs, bestGuess1, bestGuess2,
                   bestGuessVal, sI, wJ, wVal, scored, reported>>

\* "if guessVal < bestGuessVal"
WorkerCompare(i) ==
    /\ ProcessAlive
    /\ wPc[i] = "cmp"
    /\ wPc' = [wPc EXCEPT ![i] =
                  IF ScoreLess(wVal[i], bestGuessVal) THEN "write1" ELSE "unlock"]
    /\ UNCHANGED <<unitVars, codecVars, inputVars, guessesMap, pcMain, wg, indexVars, query,
                   filteredGuesses, guessBitvecs, bestGuess1, bestGuess2,
                   bestGuessVal, mu, sI, wJ, wVal, scored, reported>>

\* bestGuess1 = guess1
WorkerWrite1(i) ==
    /\ ProcessAlive
    /\ wPc[i] = "write1"
    /\ bestGuess1' = filteredGuesses[i]
    /\ wPc' = [wPc EXCEPT ![i] = "write2"]
    /\ UNCHANGED <<unitVars, codecVars, inputVars, guessesMap, pcMain, wg, indexVars, query,
                   filteredGuesses, guessBitvecs, bestGuess2, bestGuessVal, mu, sI,
                   wJ, wVal, scored, reported>>

\* bestGuess2 = guess2
WorkerWrite2(i) ==
    /\ ProcessAlive
    /\ wPc[i] = "write2"
    /\ bestGuess2' = filteredGuesses[wJ[i]]
    /\ wPc' = [wPc EXCEPT ![i] = "write3"]
    /\ UNCHANGED <<unitVars, codecVars, inputVars, guessesMap, pcMain, wg, indexVars, query,
                   filteredGuesses, guessBitvecs, bestGuess1, bestGuessVal, mu, sI,
                   wJ, wVal, scored, reported>>

\* bestGuessVal = guessVal
WorkerWrite3(i) ==
    /\ ProcessAlive
    /\ wPc[i] = "write3"
    /\ bestGuessVal' = wVal[i]
    /\ wPc' = [wPc EXCEPT ![i] = "unlock"]
    /\ UNCHANGED <<unitVars, codecVars, inputVars, guessesMap, pcMain, wg, indexVars, query,
                   filteredGuesses, guessBitvecs, bestGuess1, bestGuess2, mu, sI,
                   wJ, wVal, scored, reported>>

\* mu.Unlock() (api/wordle.go: then wg.Done()), and j++
WorkerUnlock(i) ==
    /\ ProcessAlive
    /\ wPc[i] = "unlock"
    /\ mu' = 0
    /\ wg' = IF variant = "api" THEN wg - 1 ELSE wg
    /\ wJ' = [wJ EXCEPT ![i] = @ + 1]
    /\ wPc' = [wPc EXCEPT ![i] = "loop"]
    /\ UNCHANGED <<unitVars, codecVars, inputVars, guessesMap, pcMain, indexVars, query,
                   filteredGuesses, guessBitvecs, bestGuess1, bestGuess2,
                   bestGuessVal, sI, wVal, scored, reported>>

\* wg.Wait() returns: the spawning loop is over and the counter is zero
SearchWait ==
    /\ pcMain = "spawn"
    /\ sI \notin Workers
    /\ wg = 0
    /\ pcMain' = "report1"
    /\ UNCHANGED <<unitVars, codecVars, inputVars, guessesMap, wg, indexVars, query, searchVars>>

\* the final Printf reads bestGuess1, bestGuess2 and bestGuessVal in turn,
\* without holding mu
Report1 ==
    /\ pcMain = "report1"
    /\ reported' = [reported EXCEPT !.guess1 = bestGuess1]
    /\ pcMain' = "report2"
    /\ UNCHANGED <<unitVars, codecVars, inputVars, guessesMap, wg, indexVars, query,
                   filteredGuesses, guessBitvecs, bestGuess1, bestGuess2,
                   bestGuessVal, mu, sI, wPc, wJ, wVal, scored>>

Report2 ==
    /\ pcMain = "report2"
    /\ reported' = [reported EXCEPT !.guess2 = bestGuess2]
    /\ pcMain' = "report3"
    /\ UNCHANGED <<unitVars, codecVars, inputVars, guessesMap, wg, indexVars, query,
                   filteredGuesses, guessBitvecs, bestGuess1, bestGuess2,
                   bestGuessVal, mu, sI, wPc, wJ, wVal, scored>>

Report3 ==
    /\ pcMain = "report3"
    /\ reported' = [reported EXCEPT !.val = bestGuessVal]
    /\ pcMain' = "done"
    /\ UNCHANGED <<unitVars, codecVars, inputVars, guessesMap, wg, indexVars, query,
                   filteredGuesses, guessBitvecs, bestGuess1, bestGuess2,
                   bestGuessVal, mu, sI, wPc, wJ, wVal, scored>>

----------------------------------------------------------------------------
\* Spec: the program from empty guessesMap to the report of findBestGuess

CodecOff ==
    /\ cPc = "off"
    /\ cGuess = None
    /\ cAnswer = None
    /\ cHint = None
    /\ cCudaHint = None
    /\ cNewHint = None
    /\ cInfos = None
    /\ cValid = None

SearchIdle ==
    /\ filteredGuesses = << >>
    /\ guessBitvecs = << >>
    /\ bestGuess1 = None
    /\ bestGuess2 = None
    /\ bestGuessVal = None
    /\ mu = 0
    /\ sI = 1
    /\ wPc = << >>
    /\ wJ = << >>
    /\ wVal = << >>
    /\ scored = {}
    /\ reported = [guess1 |-> None, guess2 |-> None, val |-> None]

UnitsOff == GenOff /\ BitvecOff /\ FoldOff /\ MinByOff

Init ==
    /\ UnitsOff
    /\ CodecOff
    /\ variant \in {"main", "api"}
    /\ guesses \in GuessLists
    /\ answers \in AnswerLists
    /\ guessesMap = EmptyMap
    /\ pcMain = "calculateHints"
    /\ wg = 0
    /\ hNext = 1
    /\ hPc = [k \in GuessIdx |-> "idle"]
    /\ bPc = [k \in GuessIdx |-> "idle"]
    /\ query = NoQuery
    /\ SearchIdle

Next ==
    \/ HintsSpawn
    \/ \E k \in GuessIdx : HintsGoroutine(k)
    \/ HintsWait
    \/ \E k \in GuessIdx : BitvecsSpawn(k)
    \/ \E k \in GuessIdx : \E order \in OrdersOf(k) : BitvecsGoroutine(k, order)
    \/ BitvecsWait
    \/ \E guess \in Range(guesses) : \E answer \in Range(answers) :
           QueryCrossCheck(guess, answer)
    \/ \E gl \in ScoreLists : QueryScore(gl)
    \/ QueryReturn
    \/ FindBestGuessStart
    \/ SearchSpawn
    \/ \E i \in Workers : WorkerLoop(i)
    \/ \E i \in Workers : WorkerLock(i)
    \/ \E i \in Workers : WorkerCompare(i)
    \/ \E i \in Workers : WorkerWrite1(i)
    \/ \E i \in Workers : WorkerWrite2(i)
    \/ \E i \in Workers : WorkerWrite3(i)
    \/ \E i \in Workers : WorkerUnlock(i)
    \/ SearchWait
    \/ Report1
    \/ Report2
    \/ Report3

Spec == Init /\ [][Next]_vars

----------------------------------------------------------------------------
\* SpecCodec: the pure functions applied to every guess/answer pair over a
\* small alphabet.

CodecLetters == 0 .. (NumLetters - 1)

CodecWords == [Positions -> CodecLetters]

\* a guess in which letters first appear in the order 0, 1, 2, ...: every
\* guess is such a guess up to a renaming of the letters, and the codec only
\* compares letters for equality
FirstUseOrdered(w) ==
    \A i \in Positions : \A c \in 0 .. (w[i] - 1) : \E j \in 1 .. (i - 1) : w[j] = c

CodecGuesses == {w \in CodecWords : FirstUseOrdered(w)}

\* the program is not running
ProgramOff ==
    /\ variant = "main"
    /\ guesses = << >>
    /\ answers = << >>
    /\ guessesMap = EmptyMap
    /\ pcMain = "off"
    /\ wg = 0
    /\ hNext = 1
    /\ hPc = << >>
    /\ bPc = << >>
    /\ query = NoQuery
    /\ SearchIdle

CodecInit ==
    /\ UnitsOff
    /\ cPc = "input"
    /\ cGuess \in CodecGuesses
    /\ cAnswer \in CodecWords
    /\ cHint = None
    /\ cCudaHint = None
    /\ cNewHint = None
    /\ cInfos = None
    /\ cValid = None
    /\ ProgramOff

CodecGetHint ==
    /\ cPc = "input"
    /\ cHint' = getHint(cGuess, cAnswer)
    /\ cCudaHint' = cudaGetHint(cGuess, cAnswer)
    /\ cNewHint' = hintNew(cGuess, cAnswer)
    /\ cPc' = "hinted"
    /\ UNCHANGED <<unitVars, cGuess, cAnswer, cInfos, cValid, inputVars, guessesMap, pcMain, wg,
                   indexVars, query, searchVars>>

CodecAnalyze ==
    /\ cPc = "hinted"
    /\ cInfos' = AnalyzeWordle(cAnswer, cGuess)
    /\ cPc' = "analyzed"
    /\ UNCHANGED <<unitVars, cGuess, cAnswer, cHint, cCudaHint, cNewHint, cValid, inputVars, guessesMap, pcMain, wg,
                   indexVars, query, searchVars>>

\* aaaaa, aaaab, aaaac, ccccc, abcab, bacca, cabba, aabbc, bbbbb, acacb
CodecCandidates ==
    << <<0, 0, 0, 0, 0>>, <<0, 0, 0, 0, 1>>, <<0, 0, 0, 0, 2>>, <<2, 2, 2, 2, 2>>,
       <<0, 1, 2, 0, 1>>, <<1, 0, 2, 2, 0>>, <<2, 0, 1, 1, 0>>, <<0, 0, 1, 1, 2>>,
       <<1, 1, 1, 1, 1>>, <<0, 2, 0, 2, 1>> >>

\* DemoMain's equivalence test on the analysis: example.FilterWords(candidates)
\* and validWordsFunc(candidates, example), the latter for every order in
\* which the range over the map LetterInfos can run
CodecFilter ==
    /\ cPc = "analyzed"
    /\ cValid' = [traditionalValid |-> FilterWords(cInfos, CodecCandidates),
                  bitvectorValid   |->
                      {validWordsFunc(CodecCandidates, cInfos, order) :
                          order \in Orders(DOMAIN cInfos)}]
    /\ cPc' = "filtered"
    /\ UNCHANGED <<unitVars, cGuess, cAnswer, cHint, cCudaHint, cNewHint, cInfos, programVars>>

CodecNext == CodecGetHint \/ CodecAnalyze \/ CodecFilter

SpecCodec == CodecInit /\ [][CodecNext]_vars

----------------------------------------------------------------------------
\* Claims about the pure functions (checked under SpecCodec)

CodecHinted == cPc \in {"hinted", "analyzed", "filtered"}

\* C1: for every guess g, answer a and letter c, the number of positions i
\* with g[i] = c that getHint tags Present or Correct is at most the number of
\* occurrences of c in a.
C1_TagsWithinOccurrences ==
    CodecHinted =>
        \A c \in LettersOf(cGuess) :
            Cardinality({i \in Positions :
                            /\ cGuess[i] = c
                            /\ HintDigits(cHint)[i] \in {Present, Correct}})
                <= CountLetter(c, cAnswer)

\* the two-pass reference feedback: the pool left after the Correct matches
RefPool(guess, answer) ==
    [c \in LettersOf(guess) |->
        CountLetter(c, answer)
            - Cardinality({i \in Positions : guess[i] = c /\ answer[i] = c})]

\* second pass, left to right over the non-Correct positions
RECURSIVE RefSecondPass(_, _, _, _, _)
RefSecondPass(i, pool, tags, guess, answer) ==
    IF i > WordLen THEN tags
    ELSE IF guess[i] = answer[i]
    THEN RefSecondPass(i + 1, pool, [tags EXCEPT ![i] = Correct], guess, answer)
    ELSE IF pool[guess[i]] > 0
    THEN RefSecondPass(i + 1, [pool EXCEPT ![guess[i]] = @ - 1],
                       [tags EXCEPT ![i] = Present], guess, answer)
    ELSE RefSecondPass(i + 1, pool, [tags EXCEPT ![i] = Absent], guess, answer)

RefFeedback(guess, answer) ==
    RefSecondPass(1, RefPool(guess, answer), [i \in Positions |-> Absent],
                  guess, answer)

\* C2: getHint(g, a) equals the two-pass reference feedback (Correct iff
\* g[i] = a[i]; the other positions, left to right, Present iff the answer
\* still has an unconsumed occurrence of g[i], otherwise Absent).
C2_MatchesTwoPassReference ==
    CodecHinted => HintDigits(cHint) = RefFeedback(cGuess, cAnswer)

\* C10: each LetterInfo of AnalyzeWordle(target, guess) with FrequencyIsExact
\* has Frequency equal to the letter's occurrences in target, and each without
\* it has Frequency at most that number.
C10_FrequencyExactness ==
    cPc = "analyzed" =>
        \A c \in DOMAIN cInfos :
            IF cInfos[c].FrequencyIsExact
            THEN cInfos[c].Frequency = CountLetter(c, cAnswer)
            ELSE cInfos[c].Frequency <= CountLetter(c, cAnswer)

\* C16: for every 5-letter guess and answer, the CUDA getHint returns the same
\* feedback code as the Go getHint.
C16_CudaHintMatchesGo ==
    CodecHinted => cCudaHint = cHint

\* C12: for every analysis produced by AnalyzeWordle(target, guess), ANDing an
\* all-ones bitvector with the precomputed bitvector of each (letter,
\* LetterInfo) constraint of the analysis selects exactly the words that
\* FilterWords keeps from the same word list.
C12_PrecomputedMatchesFilter ==
    cPc = "filtered" =>
        \A bitvectorValid \in cValid.bitvectorValid :
            Range(bitvectorValid) = Range(cValid.traditionalValid)

----------------------------------------------------------------------------
\* Claims about the program (checked under Spec)

\* the answers a Bitvec selects
SelectedAnswers(bitvec) == {answers[k + 1] : k \in SetIndices(bitvec)}

\* C17: on the same guess-by-answer hint table the CUDA avgNumCandidates of a
\* pair of guesses has the same total, and so the same average, as the Go
\* AvgNumCandidates of that pair.
C17_CudaScoreMatchesGo ==
    (query.kind = "score" /\ Len(query.guesses) = 2) => query.cuda = query.avg

\* C18: when fewer than two guesses pass the 5-distinct-letter filter (the
\* empty vocabulary included), findBestGuess does not fail at run time.
C18_NoCrashOnFewGuesses ==
    Len(filteredGuesses) < 2 => pcMain # "panic"

\* 242, the code whose base-3 digits are 2,2,2,2,2
AllCorrectCode == (HintBase ^ WordLen) - 1

\* C19: the feedback of a word against itself is all-Correct in every
\* implementation: the Go getHint(g, g) and the CUDA getHint(g, g) return 242
\* and hint.New(g, g).sequence is [2,2,2,2,2].
C19_SelfFeedbackAllCorrect ==
    (CodecHinted /\ cGuess = cAnswer) =>
        /\ cHint = AllCorrectCode
        /\ cCudaHint = AllCorrectCode
        /\ cNewHint.sequence = [i \in Positions |-> Correct]

\* a word with a repeated and a single letter has been compared with itself
C19_Witness ==
    /\ CodecHinted
    /\ cGuess = cAnswer
    /\ cGuess = <<0, 1, 0, 2, 1>>
    /\ cNewHint.sequence = [i \in Positions |-> Correct]

\* C22: for every 5-letter guess and answer, hint.New(guess, answer).sequence[i]
\* is 2 (Correct) if and only if guess[i] = answer[i].
C22_NewGreenIffExactMatch ==
    CodecHinted =>
        \A i \in Positions :
            (cNewHint.sequence[i] = Correct) <=> (cGuess[i] = cAnswer[i])

\* C23: the true answer is never filtered out by its own feedback on the
\* structural path: AnalyzeWordle(target, guess).WordSatisfiesConstraints(target)
\* is true, so FilterWords keeps target whenever it is among the candidates.
C23_TargetSurvivesOwnFeedback ==
    /\ cPc \in {"analyzed", "filtered"} => WordSatisfiesConstraints(cInfos, cAnswer)
    /\ (cPc = "filtered" /\ cAnswer \in Range(CodecCandidates)) =>
           cAnswer \in Range(cValid.traditionalValid)

\* C24: the pair score does not depend on the order of the two guesses: over
\* the same index AvgNumCandidates(g1, g2) = AvgNumCandidates(g2, g1), and
\* likewise MaxNumCandidates.
C24_PairScoreSymmetric ==
    (query.kind = "score" /\ Len(query.guesses) = 2) =>
        /\ query.avg = AvgNumCandidates(query.guesses[2], <<query.guesses[1]>>)
        /\ query.max = MaxNumCandidates(query.guesses[2], <<query.guesses[1]>>)

\* C3: the bitset path and the structural path select the same candidates:
\* the answers in lookupBitvec(g, a) are the words kept by
\* AnalyzeWordle(a, g).FilterWords(answers).
C3_PathsAgree ==
    query.kind = "cross" => SelectedAnswers(query.bitvec) = Range(query.kept)

AnswerIndices == 0 .. (Len(answers) - 1)

\* C4: after calculateHints and calculateBitvecs, for every guess the Bitvecs
\* of its HintsMap are non-empty, pairwise disjoint, their union is the full
\* set of answer indices, and index k is in the bucket of hint h exactly when
\* getHint(guess, answers[k]) = h.
C4_BucketsPartition ==
    IndexBuilt =>
        \A g \in Range(guesses) :
            LET hm == guessesMap[g].HintsMap IN
            /\ \A h \in DOMAIN hm : SetIndices(hm[h]) # {}
            /\ \A h1, h2 \in DOMAIN hm :
                   h1 # h2 => SetIndices(hm[h1]) \cap SetIndices(hm[h2]) = {}
            /\ UNION {SetIndices(hm[h]) : h \in DOMAIN hm} = AnswerIndices
            /\ \A k \in AnswerIndices :
                   /\ getHint(g, answers[k + 1]) \in DOMAIN hm
                   /\ \A h \in DOMAIN hm :
                          k \in SetIndices(hm[h]) <=> getHint(g, answers[k + 1]) = h

\* an index in which some guess has several buckets, one of them with
\* several answers
C4_Witness ==
    /\ IndexBuilt
    /\ \E g \in Range(guesses) :
           /\ Cardinality(DOMAIN guessesMap[g].HintsMap) >= 2
           /\ \E h \in DOMAIN guessesMap[g].HintsMap :
                  Cardinality(SetIndices(guessesMap[g].HintsMap[h])) >= 2

WaitReturned == pcMain \in {"report1", "report2", "report3", "done"}

\* C5: wg.Wait() of findBestGuess cannot return while a worker has pairs left
\* or may still update the best result: when the best pair is read and
\* reported, every worker goroutine has finished.
C5_WaitCoversAllPairs ==
    WaitReturned => \A i \in Workers : wPc[i] = "done"

InCriticalSection(i) == wPc[i] \in {"cmp", "write1", "write2", "write3", "unlock"}

AllWorkersDone ==
    /\ pcMain \in {"spawn", "report1", "report2", "report3", "done"}
    /\ sI \notin Workers
    /\ \A i \in Workers : wPc[i] = "done"

\* C6: the read-compare-write of the best result happens inside mu's critical
\* section (no two workers are in it together), and once all workers have
\* finished bestGuessVal is the minimum of the scores of the initial pair and
\* of all scored pairs, and is the score of (bestGuess1, bestGuess2).
C6_NoLostUpdate ==
    /\ \A i, j \in Workers :
           i # j => ~(InCriticalSection(i) /\ InCriticalSection(j))
    /\ AllWorkersDone =>
           /\ \A p \in scored : ~ScoreLess(ScorePair(p[1], p[2]), bestGuessVal)
           /\ \E p \in scored : ScorePair(p[1], p[2]) = bestGuessVal
           /\ ScorePair(bestGuess1, bestGuess2) = bestGuessVal

\* all workers finished after at least two updates of different value were in
\* play: the best pair is not the initial one and three pairs were scored
C6_Witness ==
    /\ AllWorkersDone
    /\ Cardinality({ScorePair(p[1], p[2]) : p \in scored}) >= 3
    /\ <<bestGuess1, bestGuess2>> # <<filteredGuesses[1], filteredGuesses[2]>>

\* the pairs findBestGuess is to consider: the initial pair and every pair
\* i < j that is not skipped
ConsideredPairs ==
    {<<filteredGuesses[1], filteredGuesses[2]>>}
        \cup {<<filteredGuesses[q[1]], filteredGuesses[q[2]]>> :
                 q \in {r \in (1 .. Len(filteredGuesses)) \X (1 .. Len(filteredGuesses)) :
                           /\ r[1] < r[2]
                           /\ ~SharesLetter(guessBitvecs[r[1]], guessBitvecs[r[2]])}}

\* the score every complete scan arrives at
CompleteScanScore ==
    CHOOSE v \in {ScorePair(p[1], p[2]) : p \in ConsideredPairs} :
        \A p \in ConsideredPairs : ~ScoreLess(ScorePair(p[1], p[2]), v)

\* C7: every run of findBestGuess over the same vocabularies reports the same
\* best score, whatever the scheduling (the score of the complete scan, which
\* the run that lets every worker finish first reports), and the reported
\* pair is a pair of that score.
C7_SameScoreEveryRun ==
    pcMain = "done" =>
        /\ reported.val = CompleteScanScore
        /\ ScorePair(reported.guess1, reported.guess2) = reported.val

\* C8: every pair findBestGuess scores or reports as best has disjoint
\* letter-presence masks.
C8_OnlyDisjointPairs ==
    \A p \in scored \cup (IF pcMain = "done"
                          THEN {<<reported.guess1, reported.guess2>>} ELSE {}) :
        ~SharesLetter(LetterMask(p[1]), LetterMask(p[2]))

\* C15: once the candidate index is built, scoring and search never modify
\* it: across every step every Bitvec stored in guessesMap keeps its Bytes and
\* Count, and And leaves both of its operands (the stored Bitvecs, the letter
\* masks of findBestGuess) unchanged.
C15_IndexReadOnly ==
    [][IndexBuilt =>
          /\ \A g \in DOMAIN guessesMap :
                 /\ DOMAIN guessesMap'[g].HintsMap = DOMAIN guessesMap[g].HintsMap
                 /\ \A h \in DOMAIN guessesMap[g].HintsMap :
                        /\ guessesMap'[g].HintsMap[h].Bytes = guessesMap[g].HintsMap[h].Bytes
                        /\ guessesMap'[g].HintsMap[h].Count = guessesMap[g].HintsMap[h].Count
          /\ guessBitvecs # << >> => guessBitvecs' = guessBitvecs]_vars

\* the search has finished after scoring a pair for which And was applied to
\* two stored Bitvecs (a first bucket of more than 2 answers), and after
\* comparing the masks of a pair that shares letters
C15_Witness ==
    /\ pcMain = "done"
    /\ \E p \in scored : \E k \in 1 .. Len(answers) :
           ~ShortCircuit(lookupBitvec(p[1], answers[k]))
    /\ \E i, j \in DOMAIN guessBitvecs :
           i < j /\ SharesLetter(guessBitvecs[i], guessBitvecs[j])

\* the running candidate set after the first n guesses of gl, for answer a
RunningSet(gl, a, n) ==
    {k \in AnswerIndices : \A m \in 1 .. n : k \in SetIndices(lookupBitvec(gl[m], a))}

\* the running set is at most 2 before some further guess is applied
SolvedEarly(gl, a) ==
    \E n \in 1 .. (Len(gl) - 1) : Cardinality(RunningSet(gl, a, n)) <= SolvedCount

Contribution(gl, a) ==
    IF SolvedEarly(gl, a) THEN 1 ELSE Cardinality(RunningSet(gl, a, Len(gl)))

RECURSIVE SumContributions(_, _)
SumContributions(gl, k) ==
    IF k > Len(answers) THEN 0
    ELSE Contribution(gl, answers[k]) + SumContributions(gl, k + 1)

\* C9: the per-answer contribution is 1 when the running set has at most 2
\* members before a further guess is applied, otherwise the cardinality of
\* the intersection of all the guesses' buckets; AvgNumCandidates is the mean
\* of the contributions over the answers, MaxNumCandidates their maximum.
C9_ScoreFromContributions ==
    query.kind = "score" =>
        /\ query.avg.num = SumContributions(query.guesses, 1)
        /\ query.avg.den = Len(answers)
        /\ query.max.den = 1
        /\ \A k \in 1 .. Len(answers) :
               Contribution(query.guesses, answers[k]) <= query.max.num
        /\ \E k \in 1 .. Len(answers) :
               Contribution(query.guesses, answers[k]) = query.max.num

\* a scored list of several guesses in which one answer is cut short with a
\* first bucket of exactly 2, and another runs through every intersection and
\* ends with fewer candidates (but more than one) than its first bucket
C9_Witness ==
    /\ query.kind = "score"
    /\ Len(query.guesses) >= 2
    /\ \E k \in 1 .. Len(answers) :
           /\ SolvedEarly(query.guesses, answers[k])
           /\ Cardinality(RunningSet(query.guesses, answers[k], 1)) = SolvedCount
    /\ \E k \in 1 .. Len(answers) :
           /\ ~SolvedEarly(query.guesses, answers[k])
           /\ Contribution(query.guesses, answers[k])
                  < Cardinality(RunningSet(query.guesses, answers[k], 1))
           /\ Contribution(query.guesses, answers[k]) > 1

----------------------------------------------------------------------------
\* SpecPrecompute: one call of GenerateAllLetterInfos

PrecomputeInit == GenInit /\ BitvecOff /\ FoldOff /\ MinByOff /\ CodecOff /\ ProgramOff

PrecomputeNext == GenerateStep

SpecPrecompute == PrecomputeInit /\ [][PrecomputeNext]_vars

\* the descriptor as the tuple (must, cant, frequency, exactness)
DescriptorOf(l) ==
    <<{l.MustBeInPositions[k] : k \in DOMAIN l.MustBeInPositions},
      {l.CantBeInPositions[k] : k \in DOMAIN l.CantBeInPositions},
      l.Frequency, l.FrequencyIsExact>>

\* the tuples that satisfy the validity invariants
ValidDescriptors ==
    {d \in (SUBSET (0 .. (WordLen - 1))) \X (SUBSET (0 .. (WordLen - 1)))
              \X (0 .. MaxFreq) \X BOOLEAN :
        /\ d[1] \cap d[2] = {}
        /\ Cardinality(d[1]) <= d[3]
        /\ d[3] = 0 => (d[1] = {} /\ d[4])}

\* C11: GenerateAllLetterInfos returns exactly the tuples (must, cant,
\* frequency, exactness) that satisfy the validity invariants, each exactly
\* once, and no two returned descriptors have the same Canonical() string.
C11_GeneratesValidOnce ==
    genPc = "done" =>
        /\ {DescriptorOf(allInfos[k]) : k \in DOMAIN allInfos} = ValidDescriptors
        /\ Len(allInfos) = Cardinality(ValidDescriptors)
        /\ Cardinality({Canonical(allInfos[k]) : k \in DOMAIN allInfos}) = Len(allInfos)

\* the generator has returned a list holding descriptors of frequency 0 and of
\* frequency 3 with three fixed positions
C11_Witness ==
    /\ genPc = "done"
    /\ \E k \in DOMAIN allInfos : allInfos[k].Frequency = 0
    /\ \E k \in DOMAIN allInfos : Len(allInfos[k].MustBeInPositions) = MaxFreq

----------------------------------------------------------------------------
\* SpecBitvec: sequences of NewBitvec, Set and And on a few bitvectors

SpecBitvecInit == BitvecInit /\ GenOff /\ FoldOff /\ MinByOff /\ CodecOff /\ ProgramOff

SpecBitvecNext ==
    \/ \E size \in BitvecSizes : BvNew(size)
    \/ \E r \in DOMAIN bvs : \E index \in BitvecIndices : BvSet(r, index)
    \/ \E r1, r2 \in DOMAIN bvs : BvAnd(r1, r2)

SpecBitvec == SpecBitvecInit /\ [][SpecBitvecNext]_vars

\* two bitvectors have the same bit contents and the same Count
SameBits(x, y) == x.Bytes = y.Bytes /\ x.Count = y.Count

\* C13: for bitvectors a, b, c of equal length, And is commutative,
\* associative and idempotent, in the bit contents and in the Count field.
C13_AndAlgebra ==
    \A a, b, c \in Range(bvs) :
        (Len(a.Bytes) = Len(b.Bytes) /\ Len(b.Bytes) = Len(c.Bytes)) =>
            /\ SameBits(AndOf(bvKind, a, b), AndOf(bvKind, b, a))
            /\ SameBits(AndOf(bvKind, AndOf(bvKind, a, b), c),
                        AndOf(bvKind, a, AndOf(bvKind, b, c)))
            /\ SameBits(AndOf(bvKind, a, a), a)

\* three two-word bitvectors with different, non-empty contents, one of them
\* with both bits set
C13_Witness ==
    /\ Len(bvs) = MaxBitvecs
    /\ \A r \in DOMAIN bvs : Len(bvs[r].Bytes) = 2 /\ bvs[r].Count > 0
    /\ \A r1, r2 \in DOMAIN bvs : r1 # r2 => bvs[r1].Bytes # bvs[r2].Bytes
    /\ \E r \in DOMAIN bvs : bvs[r].Count = 2

\* C14: after any sequence of NewBitvector, Set (also repeated on the same
\* index) and And, every bitvector's Count is the number of 1 bits in its
\* Bytes.
C14_CountIsPopcount ==
    \A r \in DOMAIN bvs : bvs[r].Count = Cardinality(SetIndices(bvs[r]))

\* a bitvector made by And of two bitvectors with bits set, itself non-empty,
\* next to a bitvector with both bits set
C14_Witness ==
    /\ Len(bvs) = MaxBitvecs
    /\ bvs[1].Count = 2
    /\ bvs[2].Count = 1
    /\ bvs[3] = AndOf(bvKind, bvs[1], bvs[2])
    /\ bvs[3].Count = 1

----------------------------------------------------------------------------
\* The fold of getHint and the digit extraction of Hint.ColoredWord on every
\* array of tags

SpecFoldInit == FoldInit /\ GenOff /\ BitvecOff /\ MinByOff /\ CodecOff /\ ProgramOff

SpecFoldNext ==
    \/ FoldEncode /\ UNCHANGED <<genVars, bitvecVars, minByVars, codecVars, programVars>>
    \/ FoldDecode /\ UNCHANGED <<genVars, bitvecVars, minByVars, codecVars, programVars>>

SpecFold == SpecFoldInit /\ [][SpecFoldNext]_vars

\* the sum of t[i] * 3^(4 - i) over the positions i = 0..4 of the source
RECURSIVE WeightedSum(_, _)
WeightedSum(t, i) ==
    IF i > WordLen THEN 0
    ELSE (t[i] * (HintBase ^ (WordLen - i))) + WeightedSum(t, i + 1)

\* C20: for every tag sequence t in {0,1,2}^5 the fold of getHint produces
\* the sum of t[i] * 3^(4-i), which is within 0..242 and is reached without
\* wrapping the uint8 accumulator, and the digit extraction of
\* Hint.ColoredWord on that code returns t, most significant digit first.
C20_FoldExtractRoundTrip ==
    /\ foldPc \in {"folded", "extracted"} =>
           /\ foldRet = WeightedSum(foldTags, 1)
           /\ foldRet \in 0 .. ((HintBase ^ WordLen) - 1)
           /\ ~foldWrapped
    /\ foldPc = "extracted" => foldDigits = foldTags

\* the tags 2,1,0,2,2 (code 197, above 127) have been folded and extracted
C20_Witness ==
    /\ foldPc = "extracted"
    /\ foldTags = <<2, 1, 0, 2, 2>>
    /\ foldRet = 197
    /\ foldDigits = foldTags

----------------------------------------------------------------------------
\* MinBy on every slice of at most MaxSliceLen elements and every key function

SpecMinByInit == MinByInit /\ GenOff /\ BitvecOff /\ FoldOff /\ CodecOff /\ ProgramOff

MinByFrame == UNCHANGED <<genVars, bitvecVars, foldVars, codecVars, programVars>>

SpecMinByNext ==
    \/ MinByStart /\ MinByFrame
    \/ MinBySpawn /\ MinByFrame
    \/ MinByLoopEnd /\ MinByFrame
    \/ \E k \in DOMAIN slice : GoLock(k) /\ MinByFrame
    \/ \E k \in DOMAIN slice : GoCompare(k) /\ MinByFrame
    \/ \E k \in DOMAIN slice : GoWrite(k) /\ MinByFrame
    \/ \E k \in DOMAIN slice : GoUnlock(k) /\ MinByFrame
    \/ MinByReturn /\ MinByFrame

SpecMinBy == SpecMinByInit /\ [][SpecMinByNext]_vars

\* C21: for a non-empty slice MinBy returns, under every interleaving of its
\* goroutines, an element of the slice whose key is at most the key of every
\* element, and it returns only after every spawned goroutine has finished;
\* for an empty slice it returns the zero value.
C21_MinByReturnsMinimum ==
    minByPc = "returned" =>
        IF slice = << >> THEN minByRet = ZeroValue
        ELSE /\ minByRet \in Range(slice)
             /\ \A k \in DOMAIN slice : keyFunc[minByRet] <= keyFunc[slice[k]]
             /\ \A k \in DOMAIN slice : goPc[k] = "done"

\* MinBy has returned the last of three elements with falling keys
C21_Witness ==
    /\ minByPc = "returned"
    /\ Len(slice) = 3
    /\ \A k \in 1 .. (Len(slice) - 1) : keyFunc[slice[k]] > keyFunc[slice[k + 1]]
    /\ minByRet = slice[Len(slice)]
====
